---- MODULE Spec2Model ----
(***************************************************************************)
(* DME-DME trilateration (src/tri.py): the five stages step_0 .. step_4    *)
(* and the driver main().                                                  *)
(*                                                                         *)
(* Numbers.  Lengths are Python ints (metres); their products are exact    *)
(* integers of any size (Nat* and IntMul below).  Angles are exact         *)
(* multiples of pi/6, written as the integer multiple ("grid index"), and  *)
(* the values of sin and cos are exact elements of Q(sqrt 3).  Every       *)
(* function is computed in exact real arithmetic: the rounding of IEEE     *)
(* doubles is not modelled.  An angle that is exact but no multiple of     *)
(* pi/6 is carried as the exact argument of the inverse function that      *)
(* produced it (grid = FALSE).                                             *)
(***************************************************************************)
EXTENDS Integers, Sequences, FiniteSets, TLC

VARIABLES
    pc,        \* position of the innermost activation of main, or of a stage call
    scn,       \* the literals of main (lines 106-114): stations, altitude, ranges
    is_main,   \* whether __name__ == '__main__' (line 178)
    depth,     \* number of active activations of main
    loc,       \* locals of the innermost activation of main
    calls,     \* stage calls made by the innermost activation, in order
    out,       \* lines printed so far
    ret,       \* how the outermost activation ended
    args,      \* arguments of a single stage call
    res        \* result of a single stage call

vars == <<pc, scn, is_main, depth, loc, calls, out, ret, args, res>>

---------------------------------------------------------------------------
(* Python ints: exact products of any size.  A natural number is the       *)
(* sequence of its base-10000 digits, least significant first, without     *)
(* leading zeros; 0 is the empty sequence.                                 *)

Abs(x) == IF x < 0 THEN -x ELSE x

Sgn(x) == IF x < 0 THEN -1 ELSE IF x = 0 THEN 0 ELSE 1

Base == 100 * 100

RECURSIVE NatOfInt(_)
NatOfInt(n) ==
    IF n = 0 THEN <<>> ELSE <<n % Base>> \o NatOfInt(n \div Base)

RECURSIVE NatAddC(_, _, _)
NatAddC(x, y, c) ==
    IF x = <<>> /\ y = <<>> THEN (IF c = 0 THEN <<>> ELSE <<c>>)
    ELSE LET dx == IF x = <<>> THEN 0 ELSE Head(x)
             dy == IF y = <<>> THEN 0 ELSE Head(y)
             t  == dx + dy + c
         IN  <<t % Base>> \o NatAddC(IF x = <<>> THEN <<>> ELSE Tail(x),
                                     IF y = <<>> THEN <<>> ELSE Tail(y),
                                     t \div Base)

NatAdd(x, y) == NatAddC(x, y, 0)

RECURSIVE NatMulDigit(_, _, _)
NatMulDigit(x, d, c) ==
    IF d = 0 \/ x = <<>> THEN NatOfInt(c)
    ELSE LET t == Head(x) * d + c
         IN  <<t % Base>> \o NatMulDigit(Tail(x), d, t \div Base)

RECURSIVE NatMul(_, _)
NatMul(x, y) ==
    IF x = <<>> \/ y = <<>> THEN <<>>
    ELSE LET low  == IF Head(y) = 0 THEN <<>> ELSE NatMulDigit(x, Head(y), 0)
             high == NatMul(x, Tail(y))
         IN  NatAdd(low, IF high = <<>> THEN <<>> ELSE <<0>> \o high)

\* -1, 0, 1 as x < y, x = y, x > y
RECURSIVE NatCmp(_, _)
NatCmp(x, y) ==
    IF Len(x) # Len(y) THEN (IF Len(x) < Len(y) THEN -1 ELSE 1)
    ELSE IF x = <<>> THEN 0
    ELSE LET n == Len(x)
         IN  IF x[n] # y[n] THEN (IF x[n] < y[n] THEN -1 ELSE 1)
             ELSE NatCmp(SubSeq(x, 1, n - 1), SubSeq(y, 1, n - 1))

\* the product of two ints, as sign and magnitude
IntMul(x, y) == [sgn |-> Sgn(x) * Sgn(y), mag |-> NatMul(NatOfInt(Abs(x)), NatOfInt(Abs(y)))]

---------------------------------------------------------------------------
(* Exact reals of Q(sqrt 3): [p, q, d] is (p + q*sqrt(3)) / d, with d > 0  *)
(* and gcd(p, q, d) = 1, so that equal numbers are equal records.          *)

RECURSIVE GCD(_, _)
GCD(a, b) == IF b = 0 THEN a ELSE GCD(b, a % b)

SNorm(p, q, d) ==
    LET g == GCD(GCD(Abs(p), Abs(q)), Abs(d))
        s == IF d < 0 THEN -g ELSE g
    IN  [p |-> p \div s, q |-> q \div s, d |-> d \div s]

SInt(n) == [p |-> n, q |-> 0, d |-> 1]

SAdd(x, y) == SNorm(x.p * y.d + y.p * x.d, x.q * y.d + y.q * x.d, x.d * y.d)

SNeg(x) == [p |-> -x.p, q |-> -x.q, d |-> x.d]

SSub(x, y) == SAdd(x, SNeg(y))

SMul(x, y) == SNorm(x.p * y.p + 3 * x.q * y.q, x.p * y.q + x.q * y.p, x.d * y.d)

\* the sign of p + q*sqrt(3): p*p and 3*q*q are never equal unless both are 0
SSign(x) ==
    IF x.p >= 0 /\ x.q >= 0 THEN (IF x.p = 0 /\ x.q = 0 THEN 0 ELSE 1)
    ELSE IF x.p <= 0 /\ x.q <= 0 THEN -1
    ELSE IF x.p > 0 THEN (IF x.p * x.p > 3 * x.q * x.q THEN 1 ELSE -1)
    ELSE (IF 3 * x.q * x.q > x.p * x.p THEN 1 ELSE -1)

\* x / y for y # 0: multiply by the conjugate of y
SDiv(x, y) ==
    LET n == SMul(x, [p |-> y.p, q |-> -y.q, d |-> 1])
    IN  SNorm(n.p * y.d, n.q * y.d, n.d * (y.p * y.p - 3 * y.q * y.q))

SLeq(x, y) == SSign(SSub(x, y)) <= 0

SLt(x, y) == SSign(SSub(x, y)) < 0

---------------------------------------------------------------------------
(* math: sin, cos on grid angles (k stands for k*pi/6); sqrt, asin, acos,  *)
(* atan2 on exact reals, with Python's errors.                             *)

\* math.pi, in units of pi/6
pi == 6

CosTable ==
    << <<2, 0>>, <<0, 1>>, <<1, 0>>, <<0, 0>>, <<-1, 0>>, <<0, -1>>,
       <<-2, 0>>, <<0, -1>>, <<-1, 0>>, <<0, 0>>, <<1, 0>>, <<0, 1>> >>

cos(k) == LET e == CosTable[(k % (2 * pi)) + 1] IN SNorm(e[1], e[2], 2)

sin(k) == cos(k - pi \div 2)

\* results of the math functions and of the stages
Angle(k) == [err |-> "", grid |-> TRUE, k |-> k, exact |-> <<>>]

\* an exact angle that is no multiple of pi/6: the function and its exact argument
OffGrid(what) == [err |-> "", grid |-> FALSE, k |-> 0, exact |-> what]

Raise(e) == [err |-> e, grid |-> FALSE, k |-> 0, exact |-> <<>>]

\* a real: v when rat, the square root of v otherwise
Rat(x) == [err |-> "", rat |-> TRUE, v |-> x]

\* math.sqrt: ValueError below 0
sqrt(x) ==
    IF SSign(x) < 0 THEN [err |-> "ValueError", rat |-> TRUE, v |-> x]
    ELSE IF \E k \in 0..(pi \div 2) : SMul(sin(k), sin(k)) = x
         THEN Rat(sin(CHOOSE k \in 0..(pi \div 2) : SMul(sin(k), sin(k)) = x))
         ELSE [err |-> "", rat |-> FALSE, v |-> x]

\* |r| <= 1 for a real r
InUnit(r) ==
    IF r.rat THEN SLeq(SInt(-1), r.v) /\ SLeq(r.v, SInt(1))
    ELSE SLeq(r.v, SInt(1))

\* math.asin: ValueError outside [-1, 1]; the result lies in [-pi/2, pi/2]
asin(r) ==
    IF ~InUnit(r) THEN Raise("ValueError")
    ELSE IF r.rat /\ \E k \in -(pi \div 2)..(pi \div 2) : sin(k) = r.v
         THEN Angle(CHOOSE k \in -(pi \div 2)..(pi \div 2) : sin(k) = r.v)
         ELSE OffGrid(<<"asin", r.rat, r.v.p, r.v.q, r.v.d>>)

\* math.acos: ValueError outside [-1, 1]; the result lies in [0, pi]
acos(x) ==
    IF ~InUnit(Rat(x)) THEN Raise("ValueError")
    ELSE IF \E k \in 0..pi : cos(k) = x
         THEN Angle(CHOOSE k \in 0..pi : cos(k) = x)
         ELSE OffGrid(<<"acos", TRUE, x.p, x.q, x.d>>)

\* the direction k*pi/6 is the direction of the vector (x, y)
Along(k, y, x) ==
    /\ SMul(x, sin(k)) = SMul(y, cos(k))
    /\ SSign(SAdd(SMul(x, cos(k)), SMul(y, sin(k)))) > 0

\* math.atan2: the result lies in (-pi, pi]; atan2(0, 0) = 0
atan2(y, x) ==
    IF SSign(x) = 0 /\ SSign(y) = 0 THEN Angle(0)
    ELSE IF \E k \in (1 - pi)..pi : Along(k, y, x)
         THEN Angle(CHOOSE k \in (1 - pi)..pi : Along(k, y, x))
         ELSE OffGrid(<<"atan2", y.p, y.q, y.d, x.p, x.q, x.d>>)

\* .5 * k for a grid angle k (an even multiple of pi/6)
Half(k) == CHOOSE h \in -(2 * pi)..(2 * pi) : 2 * h = k

\* math.radians, math.degrees: pi/6 is 30 degrees
radians(deg) == CHOOSE k \in -(2 * pi)..(2 * pi) : 30 * k = deg

degrees(k) == 30 * k

---------------------------------------------------------------------------
(* The stages.                                                             *)

E_RADIUS == 6367 * 1000

\* TwoAsinHalfSqrt without the factor .5 in the domain of asin: a / b > 1 raises
TwoAsinHalfSqrt_Unit(a, b) ==
    IF b.sgn = 0 THEN Raise("ZeroDivisionError")
    ELSE IF a.sgn * b.sgn < 0 THEN Raise("ValueError")
    ELSE IF NatCmp(a.mag, b.mag) > 0 THEN Raise("ValueError")
    ELSE IF a.mag = <<>> THEN Angle(0)
    ELSE IF a.mag = b.mag THEN Angle(pi \div 3)
    ELSE OffGrid(<<"2asin.5sqrt", a.mag, b.mag>>)

\* 2 * asin(.5 * sqrt(a / b)) for exact integers a, b (lines 13 and 17).
\* a / b raises ZeroDivisionError when b = 0; sqrt raises ValueError when
\* a / b < 0; asin raises ValueError when .5 * sqrt(a / b) > 1, that is when
\* a / b > 4.  Otherwise the result is the angle t of [0, pi] with
\* sin(t / 2) = .5 * sqrt(a / b), that is with cos(t) = 1 - (a / b) / 2:
\* 0, pi/3, pi/2, 2*pi/3, pi for a / b = 0, 1, 2, 3, 4.
TwoAsinHalfSqrt(a, b) ==
    IF b.sgn = 0 THEN Raise("ZeroDivisionError")
    ELSE IF a.sgn * b.sgn < 0 THEN Raise("ValueError")
    ELSE IF NatCmp(a.mag, NatMulDigit(b.mag, 4, 0)) > 0 THEN Raise("ValueError")
    ELSE IF \E k \in 0..pi :
                /\ cos(k).q = 0
                /\ NatMulDigit(a.mag, cos(k).d, 0)
                     = NatMulDigit(b.mag, 2 * (cos(k).d - cos(k).p), 0)
         THEN Angle(CHOOSE k \in 0..pi :
                /\ cos(k).q = 0
                /\ NatMulDigit(a.mag, cos(k).d, 0)
                     = NatMulDigit(b.mag, 2 * (cos(k).d - cos(k).p), 0))
         ELSE OffGrid(<<"2asin.5sqrt", a.mag, b.mag>>)

\* step_0 with a sign slip in the second factor of a for station U
step_0_SignSlip(r_e, h_u, h_s, h_a, d_ua, d_sa) ==
    LET a_ua == IntMul(d_ua - h_a + h_u, d_ua + h_a + h_u)
        b_ua == IntMul(r_e + h_u, r_e + h_a)
        theta_ua == TwoAsinHalfSqrt(a_ua, b_ua)
        a_sa == IntMul(d_sa - h_a + h_s, d_sa + h_a - h_s)
        b_sa == IntMul(r_e + h_s, r_e + h_a)
        theta_sa == TwoAsinHalfSqrt(a_sa, b_sa)
    IN  IF theta_ua.err # "" THEN [err |-> theta_ua.err, theta_ua |-> Raise(theta_ua.err), theta_sa |-> Raise(theta_ua.err)]
        ELSE IF theta_sa.err # "" THEN [err |-> theta_sa.err, theta_ua |-> Raise(theta_sa.err), theta_sa |-> Raise(theta_sa.err)]
        ELSE [err |-> "", theta_ua |-> theta_ua, theta_sa |-> theta_sa]

step_0(r_e, h_u, h_s, h_a, d_ua, d_sa) ==
    LET a_ua == IntMul(d_ua - h_a + h_u, d_ua + h_a - h_u)
        b_ua == IntMul(r_e + h_u, r_e + h_a)
        theta_ua == TwoAsinHalfSqrt(a_ua, b_ua)
        a_sa == IntMul(d_sa - h_a + h_s, d_sa + h_a - h_s)
        b_sa == IntMul(r_e + h_s, r_e + h_a)
        theta_sa == TwoAsinHalfSqrt(a_sa, b_sa)
    IN  IF theta_ua.err # "" THEN [err |-> theta_ua.err, theta_ua |-> Raise(theta_ua.err), theta_sa |-> Raise(theta_ua.err)]
        ELSE IF theta_sa.err # "" THEN [err |-> theta_sa.err, theta_ua |-> Raise(theta_sa.err), theta_sa |-> Raise(theta_sa.err)]
        ELSE [err |-> "", theta_ua |-> theta_ua, theta_sa |-> theta_sa]

\* 2 * t for an angle t returned by asin
Twice(t) ==
    IF t.err # "" THEN t
    ELSE IF t.grid THEN Angle(2 * t.k)
    ELSE OffGrid(<<"2*">> \o t.exact)

step_1(lat_u, lon_u, lat_s, lon_s) ==
    LET a1 == sin(Half(lat_s - lat_u))
        b1 == sin(Half(lon_s - lon_u))
        c1 == sqrt(SAdd(SMul(a1, a1), SMul(SMul(SMul(cos(lat_s), cos(lat_u)), b1), b1)))
        theta_us == IF c1.err # "" THEN Raise(c1.err) ELSE Twice(asin(c1))
        a2 == lon_s - lon_u
        b2 == SMul(cos(lat_s), sin(a2))
        c2 == SMul(sin(lat_s), cos(lat_u))
        d2 == SMul(SMul(cos(lat_s), sin(lat_u)), cos(a2))
        psi_su == atan2(b2, SSub(c2, d2))
    IN  [err |-> theta_us.err, theta_us |-> theta_us, psi_su |-> psi_su]

\* step_2 without the second test (lines 48-50)
step_2_NoConcentric(theta_us, theta_ua, theta_sa) ==
    IF (theta_ua + theta_sa) < theta_us THEN FALSE
    ELSE TRUE

\* step_2 with <= for < in the first test (line 44)
step_2_Inclusive(theta_us, theta_ua, theta_sa) ==
    IF (theta_ua + theta_sa) <= theta_us THEN FALSE
    ELSE IF Abs(theta_ua - theta_sa) > theta_us THEN FALSE
    ELSE TRUE

step_2(theta_us, theta_ua, theta_sa) ==
    IF (theta_ua + theta_sa) < theta_us THEN FALSE
    ELSE IF Abs(theta_ua - theta_sa) > theta_us THEN FALSE
    ELSE TRUE

\* step_3 that answers 0 instead of dividing by zero
step_3_ZeroGuard(theta_us, theta_ua, theta_sa) ==
    LET a == SSub(cos(theta_sa), SMul(cos(theta_us), cos(theta_ua)))
        b == SMul(sin(theta_us), sin(theta_ua))
    IN  IF SSign(b) = 0 THEN Angle(0)
        ELSE acos(SDiv(a, b))

step_3(theta_us, theta_ua, theta_sa) ==
    LET a == SSub(cos(theta_sa), SMul(cos(theta_us), cos(theta_ua)))
        b == SMul(sin(theta_us), sin(theta_ua))
    IN  IF SSign(b) = 0 THEN Raise("ZeroDivisionError")
        ELSE acos(SDiv(a, b))

\* t + k for an angle t returned by atan2 and a grid angle k
Plus(t, k) ==
    IF t.err # "" THEN t
    ELSE IF t.grid THEN Angle(t.k + k)
    ELSE OffGrid(<<"+", k>> \o t.exact)

step_4(ac_south, lat_u, lon_u, beta_u, psi_su, theta_ua) ==
    LET psi_au == IF ac_south THEN psi_su + beta_u ELSE psi_su - beta_u
        a1 == SMul(sin(lat_u), cos(theta_ua))
        b1 == SMul(SMul(cos(lat_u), sin(theta_ua)), cos(psi_au))
        lat_a == asin(Rat(SAdd(a1, b1)))
        a2 == SMul(sin(psi_au), sin(theta_ua))
        b2 == SMul(cos(lat_u), cos(theta_ua))
        c2 == SMul(SMul(sin(lat_u), sin(theta_ua)), cos(psi_au))
        lon_a == Plus(atan2(a2, SSub(b2, c2)), lon_u)
    IN  [err |-> lat_a.err, lat_a |-> lat_a, lon_a |-> lon_a]

---------------------------------------------------------------------------
(* The driver main() (lines 89-179).  Its literals (lines 106-114) are the *)
(* record scn; main is checked over the set Scenarios of literals.         *)

Unset == Raise("unset")

NoPoint == [label |-> "", lat |-> 0, lon |-> 0, alt |-> 0]

NoLocals ==
    [theta_ua |-> Unset, theta_sa |-> Unset, theta_us |-> Unset, psi_su |-> Unset,
     beta_u |-> Unset, pn |-> NoPoint, ps |-> NoPoint]

\* the literals of lines 106-114: the slant ranges to the nearest metre, the
\* latitudes and longitudes to the nearest degree (step_0 does not read them)
Hardcoded ==
    [u |-> [label |-> "PORT", lat |-> 34, lon |-> 73, alt |-> 82],
     s |-> [label |-> "ISB", lat |-> 33, lon |-> 74, alt |-> 152],
     a_alt |-> 3000, au_range |-> 54273, as_range |-> 104785]

\* E_RADIUS / 20: the sides 20*K, 21*K, 29*K make a right angle at the centre
K == 6367 * 50

\* literals whose angles are multiples of pi/6
Candidates ==
    [u : [label : {"U"}, lat : {0}, lon : {0}, alt : {0, K}],
     s : [label : {"S"}, lat : {-60, 0, 60}, lon : {-120, -60, 0, 60, 120, 180}, alt : {0, K}],
     a_alt : {K},
     au_range : {0, K, 21 * K, 29 * K, 41 * K, 42 * K},
     as_range : {0, K, 21 * K, 29 * K, 41 * K, 42 * K}]

\* every value main computes from the literals sc is an error or a multiple of pi/6
OnGrid(sc) ==
    \A r0 \in {step_0(E_RADIUS, sc.u.alt, sc.s.alt, sc.a_alt, sc.au_range, sc.as_range)} :
    \A r1 \in {step_1(radians(sc.u.lat), radians(sc.u.lon), radians(sc.s.lat), radians(sc.s.lon))} :
        \/ r0.err # ""
        \/ /\ r0.theta_ua.grid /\ r0.theta_sa.grid
           /\ r1.err = "" /\ r1.theta_us.grid /\ r1.psi_su.grid
           /\ \/ ~step_2(r1.theta_us.k, r0.theta_ua.k, r0.theta_sa.k)
              \/ \A r3 \in {step_3(r1.theta_us.k, r0.theta_ua.k, r0.theta_sa.k)} :
                    \/ r3.err # ""
                    \/ /\ r3.grid
                       /\ \A ac_south \in BOOLEAN :
                          \A r4 \in {step_4(ac_south, radians(sc.u.lat), radians(sc.u.lon),
                                            r3.k, r1.psi_su.k, r0.theta_ua.k)} :
                              r4.err # "" \/ (r4.lat_a.grid /\ r4.lon_a.grid)

Scenarios == {sc \in Candidates : OnGrid(sc)}

\* bound on the depth of Python's call stack (RecursionError beyond it)
MaxDepth == 3

Call(fn, a, r) == [fn |-> fn, args |-> a, result |-> r]

\* an exception leaves every activation of main
Raised(e) ==
    /\ pc' = "done"
    /\ ret' = e
    /\ depth' = 0

\* the innermost activation returns v; its caller, if any, is at the end of line 179
Return(v) ==
    IF depth = 1
    THEN pc' = "done" /\ ret' = v /\ depth' = 0
    ELSE pc' = "end" /\ ret' = ret /\ depth' = depth - 1

InitMain ==
    /\ pc = "idle"
    /\ scn \in Scenarios
    /\ is_main \in BOOLEAN
    /\ depth = 0
    /\ loc = NoLocals
    /\ calls = <<>>
    /\ out = <<>>
    /\ ret = "running"
    /\ args = <<>>
    /\ res = <<>>

\* main() is called
Enter ==
    /\ pc = "idle"
    /\ pc' = "step_0"
    /\ depth' = 1
    /\ UNCHANGED <<scn, is_main, loc, calls, out, ret, args, res>>

\* lines 119-124
Do_step_0 ==
    /\ pc = "step_0"
    /\ LET a == <<E_RADIUS, scn.u.alt, scn.s.alt, scn.a_alt, scn.au_range, scn.as_range>>
           r == step_0(a[1], a[2], a[3], a[4], a[5], a[6])
       IN  /\ calls' = Append(calls, Call("step_0", a, r.err = ""))
           /\ IF r.err # ""
              THEN Raised(r.err) /\ loc' = loc
              ELSE /\ loc' = [loc EXCEPT !.theta_ua = r.theta_ua, !.theta_sa = r.theta_sa]
                   /\ pc' = "step_1"
                   /\ UNCHANGED <<ret, depth>>
    /\ UNCHANGED <<scn, is_main, out, args, res>>

\* lines 128-130
Do_step_1 ==
    /\ pc = "step_1"
    /\ LET a == <<radians(scn.u.lat), radians(scn.u.lon), radians(scn.s.lat), radians(scn.s.lon)>>
           r == step_1(a[1], a[2], a[3], a[4])
       IN  /\ calls' = Append(calls, Call("step_1", a, r.err = ""))
           /\ IF r.err # ""
              THEN Raised(r.err) /\ loc' = loc
              ELSE /\ loc' = [loc EXCEPT !.theta_us = r.theta_us, !.psi_su = r.psi_su]
                   /\ pc' = "step_2"
                   /\ UNCHANGED <<ret, depth>>
    /\ UNCHANGED <<scn, is_main, out, args, res>>

\* lines 133-139 without the return of line 139
Do_step_2_NoReturn ==
    /\ pc = "step_2"
    /\ LET a == <<loc.theta_us.k, loc.theta_ua.k, loc.theta_sa.k>>
           r == step_2(a[1], a[2], a[3])
       IN  /\ calls' = Append(calls, Call("step_2", a, r))
           /\ out' = IF ~r THEN Append(out, "Cannot compute, ranges are not consistant") ELSE out
           /\ pc' = "step_3"
           /\ UNCHANGED <<ret, depth>>
    /\ UNCHANGED <<scn, is_main, loc, args, res>>

\* lines 133-139
Do_step_2 ==
    /\ pc = "step_2"
    /\ LET a == <<loc.theta_us.k, loc.theta_ua.k, loc.theta_sa.k>>
           r == step_2(a[1], a[2], a[3])
       IN  /\ calls' = Append(calls, Call("step_2", a, r))
           /\ IF ~r
              THEN /\ out' = Append(out, "Cannot compute, ranges are not consistant")
                   /\ Return("1")
              ELSE /\ pc' = "step_3"
                   /\ UNCHANGED <<out, ret, depth>>
    /\ UNCHANGED <<scn, is_main, loc, args, res>>

\* lines 142-145
Do_step_3 ==
    /\ pc = "step_3"
    /\ LET a == <<loc.theta_us.k, loc.theta_ua.k, loc.theta_sa.k>>
           r == step_3(a[1], a[2], a[3])
       IN  /\ calls' = Append(calls, Call("step_3", a, r.err = ""))
           /\ IF r.err # ""
              THEN Raised(r.err) /\ loc' = loc
              ELSE /\ loc' = [loc EXCEPT !.beta_u = r]
                   /\ pc' = "step_4_north"
                   /\ UNCHANGED <<ret, depth>>
    /\ UNCHANGED <<scn, is_main, out, args, res>>

\* lines 154-159
Do_step_4_north ==
    /\ pc = "step_4_north"
    /\ LET a == <<FALSE, radians(scn.u.lat), radians(scn.u.lon),
                  loc.beta_u.k, loc.psi_su.k, loc.theta_ua.k>>
           r == step_4(a[1], a[2], a[3], a[4], a[5], a[6])
       IN  /\ calls' = Append(calls, Call("step_4", a, r.err = ""))
           /\ IF r.err # ""
              THEN Raised(r.err) /\ loc' = loc
              ELSE /\ loc' = [loc EXCEPT !.pn = [label |-> "P north", lat |-> degrees(r.lat_a.k),
                                                lon |-> degrees(r.lon_a.k), alt |-> scn.a_alt]]
                   /\ pc' = "step_4_south"
                   /\ UNCHANGED <<ret, depth>>
    /\ UNCHANGED <<scn, is_main, out, args, res>>

\* lines 162-166 with the ac_south of line 155
Do_step_4_south_CopyPaste ==
    /\ pc = "step_4_south"
    /\ LET a == <<FALSE, radians(scn.u.lat), radians(scn.u.lon),
                  loc.beta_u.k, loc.psi_su.k, loc.theta_ua.k>>
           r == step_4(a[1], a[2], a[3], a[4], a[5], a[6])
       IN  /\ calls' = Append(calls, Call("step_4", a, r.err = ""))
           /\ IF r.err # ""
              THEN Raised(r.err) /\ loc' = loc
              ELSE /\ loc' = [loc EXCEPT !.ps = [label |-> "P south", lat |-> degrees(r.lat_a.k),
                                                lon |-> degrees(r.lon_a.k), alt |-> scn.a_alt]]
                   /\ pc' = "print"
                   /\ UNCHANGED <<ret, depth>>
    /\ UNCHANGED <<scn, is_main, out, args, res>>

\* lines 162-166
Do_step_4_south ==
    /\ pc = "step_4_south"
    /\ LET a == <<TRUE, radians(scn.u.lat), radians(scn.u.lon),
                  loc.beta_u.k, loc.psi_su.k, loc.theta_ua.k>>
           r == step_4(a[1], a[2], a[3], a[4], a[5], a[6])
       IN  /\ calls' = Append(calls, Call("step_4", a, r.err = ""))
           /\ IF r.err # ""
              THEN Raised(r.err) /\ loc' = loc
              ELSE /\ loc' = [loc EXCEPT !.ps = [label |-> "P south", lat |-> degrees(r.lat_a.k),
                                                lon |-> degrees(r.lon_a.k), alt |-> scn.a_alt]]
                   /\ pc' = "print"
                   /\ UNCHANGED <<ret, depth>>
    /\ UNCHANGED <<scn, is_main, out, args, res>>

\* lines 169-171
PrintResults ==
    /\ pc = "print"
    /\ out' = out \o <<scn.u, scn.s, loc.pn, loc.ps>>
    /\ pc' = "name_check"
    /\ UNCHANGED <<scn, is_main, depth, loc, calls, ret, args, res>>

\* lines 178-179: inside main, main() is called again when run as a script
NameCheck ==
    /\ pc = "name_check"
    /\ IF is_main
       THEN IF depth < MaxDepth
            THEN /\ depth' = depth + 1
                 /\ pc' = "step_0"
                 /\ loc' = NoLocals
                 /\ calls' = <<>>
                 /\ ret' = ret
            ELSE Raised("RecursionError") /\ UNCHANGED <<loc, calls>>
       ELSE pc' = "end" /\ UNCHANGED <<depth, loc, calls, ret>>
    /\ UNCHANGED <<scn, is_main, out, args, res>>

\* the end of main: return None
End ==
    /\ pc = "end"
    /\ Return("None")
    /\ UNCHANGED <<scn, is_main, loc, calls, out, args, res>>

NextMain ==
    \/ Enter
    \/ Do_step_0
    \/ Do_step_1
    \/ Do_step_2
    \/ Do_step_3
    \/ Do_step_4_north
    \/ Do_step_4_south
    \/ PrintResults
    \/ NameCheck
    \/ End

SpecMain == InitMain /\ [][NextMain]_vars

---------------------------------------------------------------------------
(* Properties of main, checked under SpecMain.                             *)

FnNames == [i \in 1..Len(calls) |-> calls[i].fn]

StageOrder == <<"step_0", "step_1", "step_2", "step_3", "step_4", "step_4">>

\* the gate of line 133 has been evaluated in this activation, with result v
GateWas(v) == Len(calls) >= 3 /\ calls[3].fn = "step_2" /\ calls[3].result = v

\* C1: whenever step_2 returns False in main, main reports the failure and
\* returns 1; step_3 and step_4 are not invoked, and no candidate position
\* (north or south) is computed or printed.
C1_GateAborts ==
    GateWas(FALSE) =>
        /\ pc = "done"
        /\ ret = "1"
        /\ FnNames = <<"step_0", "step_1", "step_2">>
        /\ out = <<"Cannot compute, ranges are not consistant">>
        /\ loc.beta_u = Unset
        /\ loc.pn = NoPoint
        /\ loc.ps = NoPoint

C1_GateFalseReached ==
    /\ GateWas(FALSE)
    /\ pc = "done"
    /\ ret = "1"

\* C5: with coincident stations (theta_us = 0) step_3 ends in an error for
\* every theta_ua and theta_sa (stated once, in the states before main is
\* entered); and a run of main with theta_us = 0 either stops at the gate
\* (returns 1) or ends in the error of step_3, and never has a position.
C5_Coincident ==
    /\ pc = "idle" => \A ua, sa \in 0..pi : step_3(0, ua, sa).err # ""
    /\ loc.theta_us = Angle(0) =>
        /\ pc \in {"step_2", "step_3", "done"}
        /\ loc.beta_u = Unset
        /\ loc.pn = NoPoint
        /\ loc.ps = NoPoint
        /\ \A i \in 1..Len(calls) : calls[i].fn # "step_4"
        /\ pc = "done" =>
            \/ GateWas(FALSE) /\ ret = "1"
            \/ /\ GateWas(TRUE)
               /\ FnNames = <<"step_0", "step_1", "step_2", "step_3">>
               /\ calls[4].result = FALSE
               /\ ret = "ZeroDivisionError"

C5_CoincidentSolveReached ==
    /\ pc = "done"
    /\ loc.theta_us = Angle(0)
    /\ GateWas(TRUE)
    /\ ret = "ZeroDivisionError"

NoStageRaised ==
    \/ pc \in {"print", "name_check", "end"}
    \/ pc = "done" /\ ret \in {"None", "RecursionError"}

C9_SouthNotAboveNorth ==
    (loc.pn.label = "P north" /\ loc.ps.label = "P south") => loc.ps.lat <= loc.pn.lat

\* C10: every invocation of main ends after at most one step_0, step_1,
\* step_2, step_3 and two step_4; main never invokes itself, whether or not
\* __name__ == '__main__' and whether or not feasibility passes.
C10_NeverInvokesItself ==
    /\ depth <= 1
    /\ ret # "RecursionError"

---------------------------------------------------------------------------
(* step_2 and step_3 as functions: one gate and one solve on every triple  *)
(* of grid angles of [0, pi].                                              *)

InitTriangle ==
    /\ pc = "gate"
    /\ args \in [theta_us : 0..pi, theta_ua : 0..pi, theta_sa : 0..pi]
    /\ res = [feasible |-> FALSE, beta_u |-> Unset]
    /\ scn = Hardcoded
    /\ is_main = FALSE
    /\ depth = 0
    /\ loc = NoLocals
    /\ calls = <<>>
    /\ out = <<>>
    /\ ret = "running"

Gate ==
    /\ pc = "gate"
    /\ res' = [res EXCEPT !.feasible = step_2(args.theta_us, args.theta_ua, args.theta_sa)]
    /\ pc' = "solve"
    /\ UNCHANGED <<scn, is_main, depth, loc, calls, out, ret, args>>

Solve ==
    /\ pc = "solve"
    /\ res' = [res EXCEPT !.beta_u = step_3(args.theta_us, args.theta_ua, args.theta_sa)]
    /\ pc' = "done"
    /\ UNCHANGED <<scn, is_main, depth, loc, calls, out, ret, args>>

NextTriangle == Gate \/ Solve

SpecTriangle == InitTriangle /\ [][NextTriangle]_vars

\* the triple of angles of the call
Tus == args.theta_us

Tua == args.theta_ua

Tsa == args.theta_sa

\* C4: step_2 returns False exactly when theta_ua + theta_sa < theta_us or
\* |theta_ua - theta_sa| > theta_us, and True otherwise; both boundaries are
\* inclusive (True at equality), and the result is the same with theta_ua
\* and theta_sa swapped.
C4_TruthTable ==
    pc \in {"solve", "done"} =>
        /\ res.feasible = FALSE <=> (Tua + Tsa < Tus \/ Abs(Tua - Tsa) > Tus)
        /\ res.feasible = TRUE <=> (Tua + Tsa >= Tus /\ Abs(Tua - Tsa) <= Tus)
        /\ Tua + Tsa = Tus => res.feasible = TRUE
        /\ Abs(Tua - Tsa) = Tus => res.feasible = TRUE
        /\ res.feasible = step_2(Tus, Tsa, Tua)

C4_SumBoundaryReached ==
    /\ pc = "done"
    /\ Tus > 0
    /\ Tua + Tsa = Tus
    /\ Tua # Tsa
    /\ res.feasible = TRUE

\* the quotient a / b of step_3 (line 61) is defined and lies in [-1, 1]
QuotientInUnit ==
    \A b \in {SMul(sin(Tus), sin(Tua))} :
        /\ SSign(b) # 0
        /\ InUnit(Rat(SDiv(SSub(cos(Tsa), SMul(cos(Tus), cos(Tua))), b)))

\* C2 as stated: for every triple of angles of [0, pi] for which step_2
\* returns True, the quotient that step_3 passes to acos is defined and lies
\* in [-1, 1], and step_3 returns an angle without an error.
C2_FeasibleSolves ==
    (pc = "done" /\ res.feasible) => (QuotientInUnit /\ res.beta_u.err = "")

\* C2 amended: the same for the triples with 0 < theta_us < pi,
\* 0 < theta_ua < pi and theta_us + theta_ua + theta_sa <= 2*pi.
C2_ProperFeasibleSolves ==
    (/\ pc = "done"
     /\ res.feasible
     /\ 0 < Tus /\ Tus < pi
     /\ 0 < Tua /\ Tua < pi
     /\ Tus + Tua + Tsa <= 2 * pi) => (QuotientInUnit /\ res.beta_u.err = "")

C2_BoundarySolved ==
    /\ pc = "done"
    /\ res.feasible
    /\ 0 < Tus /\ Tus < pi
    /\ 0 < Tua /\ Tua < pi
    /\ Tua + Tsa = Tus
    /\ res.beta_u = Angle(0)

---------------------------------------------------------------------------
(* step_0 as a function: one call on small integer arguments and on the    *)
(* arguments main passes (lines 119-124).                                  *)

MaxRe == 2

MaxAlt == 1

MaxRange == 4

SmallInputs ==
    [r_e : 1..MaxRe, h_u : -MaxAlt..MaxAlt, h_s : -MaxAlt..MaxAlt, h_a : -MaxAlt..MaxAlt,
     d_ua : 0..MaxRange, d_sa : 0..MaxRange]

HardcodedInput ==
    [r_e |-> E_RADIUS, h_u |-> Hardcoded.u.alt, h_s |-> Hardcoded.s.alt,
     h_a |-> Hardcoded.a_alt, d_ua |-> Hardcoded.au_range, d_sa |-> Hardcoded.as_range]

InitStep0 ==
    /\ pc = "call"
    /\ args \in SmallInputs \cup {HardcodedInput}
    /\ res = [err |-> "unset", theta_ua |-> Unset, theta_sa |-> Unset]
    /\ scn = Hardcoded
    /\ is_main = FALSE
    /\ depth = 0
    /\ loc = NoLocals
    /\ calls = <<>>
    /\ out = <<>>
    /\ ret = "running"

CallStep0 ==
    /\ pc = "call"
    /\ res' = step_0(args.r_e, args.h_u, args.h_s, args.h_a, args.d_ua, args.d_sa)
    /\ pc' = "done"
    /\ UNCHANGED <<scn, is_main, depth, loc, calls, out, ret, args>>

NextStep0 == CallStep0

SpecStep0 == InitStep0 /\ [][NextStep0]_vars

\* a and b of lines 11-12 and 15-16 for a station of altitude h at range d
RatioA(h, d) == (d - args.h_a + h) * (d + args.h_a - h)

RatioB(h) == (args.r_e + h) * (args.r_e + args.h_a)

\* a / b is defined and lies in [0, n]
RatioWithin(a, b, n) ==
    /\ b # 0
    /\ a * b >= 0
    /\ Abs(a) <= n * Abs(b)

\* a / b is a number outside [0, n]
RatioOutside(a, b, n) ==
    /\ b # 0
    /\ a * b < 0 \/ Abs(a) > n * Abs(b)

\* C3 as stated: step_0 fails whenever the ratio a / b of either station is
\* negative or greater than 1, and returns the pair of angles only when both
\* ratios lie in [0, 1].
C3_UnitRatio ==
    (pc = "done" /\ args \in SmallInputs) =>
        /\ (\/ RatioOutside(RatioA(args.h_u, args.d_ua), RatioB(args.h_u), 1)
            \/ RatioOutside(RatioA(args.h_s, args.d_sa), RatioB(args.h_s), 1)) => res.err # ""
        /\ res.err = "" =>
            /\ RatioWithin(RatioA(args.h_u, args.d_ua), RatioB(args.h_u), 1)
            /\ RatioWithin(RatioA(args.h_s, args.d_sa), RatioB(args.h_s), 1)

\* C3 amended: step_0 fails whenever the ratio a / b of either station is
\* undefined (b = 0), negative or greater than 4, and returns the pair of
\* angles exactly when both ratios lie in [0, 4].
C3_ChordRatio ==
    (pc = "done" /\ args \in SmallInputs) =>
        /\ (\/ RatioB(args.h_u) = 0
            \/ RatioB(args.h_s) = 0
            \/ RatioOutside(RatioA(args.h_u, args.d_ua), RatioB(args.h_u), 4)
            \/ RatioOutside(RatioA(args.h_s, args.d_sa), RatioB(args.h_s), 4)) => res.err # ""
        /\ res.err = "" <=>
            /\ RatioWithin(RatioA(args.h_u, args.d_ua), RatioB(args.h_u), 4)
            /\ RatioWithin(RatioA(args.h_s, args.d_sa), RatioB(args.h_s), 4)

C3_RatioAboveOneReturned ==
    /\ pc = "done"
    /\ args \in SmallInputs
    /\ RatioA(args.h_u, args.d_ua) > RatioB(args.h_u)
    /\ RatioB(args.h_u) > 0
    /\ res.err = ""
    /\ res.theta_ua = Angle(pi)

\* C6: the angle step_0 computes for a station is the same when the
\* altitude of the station and the altitude of the aircraft are exchanged,
\* and the computation fails for one order exactly when it fails for the
\* other (station S a copy of station U, so that the pair is one result).
C6_AltitudesSwapped ==
    pc = "done" =>
        /\ step_0(args.r_e, args.h_u, args.h_u, args.h_a, args.d_ua, args.d_ua)
             = step_0(args.r_e, args.h_a, args.h_a, args.h_u, args.d_ua, args.d_ua)
        /\ step_0(args.r_e, args.h_s, args.h_s, args.h_a, args.d_sa, args.d_sa)
             = step_0(args.r_e, args.h_a, args.h_a, args.h_s, args.d_sa, args.d_sa)
        /\ (args.h_s = args.h_u /\ args.d_sa = args.d_ua) =>
             res = step_0(args.r_e, args.h_a, args.h_a, args.h_u, args.d_ua, args.d_ua)

C6_SwapReached ==
    /\ pc = "done"
    /\ args.h_s = args.h_u
    /\ args.d_sa = args.d_ua
    /\ args.h_u # args.h_a
    /\ res.err = ""
    /\ res.theta_ua.grid
    /\ res.theta_ua.k > 0

\* the largest s of lo..hi with s * s * b <= a12
RECURSIVE RootSearch(_, _, _, _)
RootSearch(lo, hi, a12, b) ==
    IF lo = hi THEN lo
    ELSE LET mid == (lo + hi + 1) \div 2
         IN
         IF NatCmp(NatMul(NatMul(NatOfInt(mid), NatOfInt(mid)), b), a12) <= 0
         THEN RootSearch(mid, hi, a12, b)
         ELSE RootSearch(lo, mid - 1, a12, b)

\* sqrt(a / b) in microradians, rounded down, for an angle 2*asin(.5*sqrt(a / b))
\* that is no multiple of pi/6.  For a / b < 1/1000 the angle lies between
\* sqrt(a / b) and sqrt(a / b) * (1 + a / (20 * b)), that is, between
\* MicroRad and MicroRad + 2 microradians.
MicroRad(t) ==
    RootSearch(0, 4 * 1000 * 1000, NatMul(t.exact[2], <<0, 0, 0, 1>>), t.exact[3])

\* the angle t is within one microradian of m microradians
Near(t, m) ==
    /\ t.err = ""
    /\ ~t.grid
    /\ MicroRad(t) <= m + 1
    /\ m - 1 <= MicroRad(t) + 2

\* C8: for the literals of main (altitudes 82, 152 and 3000 m, ranges 54273
\* and 104785 m, Earth radius 6367000 m) step_0 returns theta_ua close to
\* 0.0130890288 rad and theta_sa close to 0.0090168045 rad.
C8_ExpectedAngles ==
    (pc = "done" /\ args = HardcodedInput) =>
        /\ res.err = ""
        /\ Near(res.theta_ua, 13089)
        /\ Near(res.theta_sa, 9017)

====
